---- MODULE Spec2Model ----
(***************************************************************************)
(* Arena hero selection logic of bestmobabot (src/bestmobabot/arena.py):   *)
(* model_select_attackers, select_enemy, model_select_grand_attackers,     *)
(* secretary_max and choose_multiple; and the action queue of the bot      *)
(* (src/bestmobabot/bot.py): Bot.run, Bot.schedule and the recurring       *)
(* actions.                                                                *)
(*                                                                         *)
(* Probabilities are multiples of 1/ProbScale, held as the integer         *)
(* numerator; a product of three probabilities has denominator             *)
(* ProbScale^3.                                                            *)
(*                                                                         *)
(* Times are whole minutes since the epoch.                                *)
(***************************************************************************)
EXTENDS Integers, Sequences, FiniteSets, TLC

\* ------------------------------------------------------------------------
\* Program constants (constants.py).

TEAM_SIZE == 5

N_GRAND_TEAMS == 3

N_GRAND_HEROES == N_GRAND_TEAMS * TEAM_SIZE

\* Program constants (bot.py), in minutes.

DEFAULT_INTERVAL == 1440

FARM_MAIL_INTERVAL == 360

ARENA_INTERVAL == 288

\* datetime.fromtimestamp(0, timezone.utc)
AS_SOON_AS_POSSIBLE == 0

\* ------------------------------------------------------------------------
\* Bounds of the model.

\* Probabilities are k/ProbScale, k \in 0..ProbScale.
ProbScale == 4

\* Single-team pools hold 0..TEAM_SIZE+MaxExtraHeroes heroes.
MaxExtraHeroes == 2

\* Grand pools hold up to N_GRAND_HEROES+MaxGrandExtra heroes.
MaxGrandExtra == 1

\* select_enemy sees 0..MaxEnemies enemies.
MaxEnemies == 2

\* secretary_max: items are 1..MaxItem, sequences of 0..MaxLen items,
\* expected counts 0..MaxN.
MaxItem == 3

MaxLen == 4

MaxN == 6

\* choose_multiple: pools of 0..MaxChoosePool items, 0..MaxGroups groups of
\* 0..MaxGroupSize items.
MaxChoosePool == 6

MaxGroups == 3

MaxGroupSize == 2

\* Bot.run starts on day StartDay after the epoch, and the loop stops
\* popping once action_counter has reached MaxActionCounter.
StartDay == 2

MaxActionCounter == 18

\* ------------------------------------------------------------------------
\* Outcomes of a call: a returned value or a raised exception, with the
\* number of estimator.predict_proba calls made on the way.

Returned(value, calls) ==
    [status |-> "returned", value |-> value, calls |-> calls]

Raised(exc, line, calls) ==
    [status |-> "raised", exc |-> exc, line |-> line, calls |-> calls]

\* ------------------------------------------------------------------------
\* Heroes and their feature vectors.

\* Length of Model.feature_names: the dimension of every hero.features.
FeatureDim == 2

\* A hero as the arena code reads it: hero.id and hero.features.
Hero(id, power, star) == [id |-> id, features |-> <<power, star>>]

\* numpy.add on two vectors.
numpy_add(a, b) == [c \in 1..FeatureDim |-> a[c] + b[c]]

\* numpy subtraction of a vector from a row.
numpy_sub(a, b) == [c \in 1..FeatureDim |-> a[c] - b[c]]

RECURSIVE reduce_add_upto(_, _)
\* reduce(numpy.add, ...) over the first k heroes, k >= 1.
reduce_add_upto(heroes, k) ==
    IF k = 1
    THEN heroes[1].features
    ELSE numpy_add(reduce_add_upto(heroes, k - 1), heroes[k].features)

\* reduce(numpy.add, ...) over a non-empty sequence of heroes.
reduce_add(heroes) == reduce_add_upto(heroes, Len(heroes))

\* make_team_features with reduce() given a zero vector as initial value.
make_team_features_zero(heroes) ==
    IF Len(heroes) = 0
    THEN Returned([c \in 1..FeatureDim |-> 0], 0)
    ELSE Returned(reduce_add(heroes), 0)

\* make_team_features: reduce() of an empty sequence raises TypeError.
make_team_features(heroes) ==
    IF Len(heroes) = 0
    THEN Raised("TypeError", 132, 0)
    ELSE Returned(reduce_add(heroes), 0)

\* ------------------------------------------------------------------------
\* The bound model: an estimator whose predict_proba maps a differential
\* feature row to the probability of a win.

\* Estimators are opaque to the arena code; these are the ones checked.
\*   stub:  1.0 when the attackers' first feature (power) exceeds the
\*          defenders', 0.0 otherwise;
\*   ramp:  the power difference, cut to [0, 1] (monotonic, graded);
\*   table: a probability looked up by the row's feature sum modulo the
\*          table length (not monotonic, with ties).
Estimators ==
    { [kind |-> "stub", table |-> <<0>>],
      [kind |-> "ramp", table |-> <<0>>],
      [kind |-> "table", table |-> <<2, 0, 1, ProbScale>>],
      [kind |-> "table", table |-> <<1, 1>>] }

\* predict_proba(x)[:, 1] for one row of x.
predict_proba(estimator, row) ==
    IF estimator.kind = "stub"
    THEN (IF row[1] > 0 THEN ProbScale ELSE 0)
    ELSE IF estimator.kind = "ramp"
    THEN (IF row[1] < 0 THEN 0
          ELSE IF row[1] > ProbScale THEN ProbScale ELSE row[1])
    ELSE estimator.table[((row[1] + row[2]) % Len(estimator.table)) + 1]

\* ------------------------------------------------------------------------
\* itertools.combinations(items, k): the k-subsequences of items in
\* lexicographic order of positions.

RECURSIVE combinations_tail_first(_, _)
\* combinations listing the subsequences without the head before those
\* with it.
combinations_tail_first(items, k) ==
    IF k = 0 THEN << <<>> >>
    ELSE IF Len(items) < k THEN <<>>
    ELSE LET rest == Tail(items)
             with == combinations_tail_first(rest, k - 1)
         IN  combinations_tail_first(rest, k)
             \o [i \in 1..Len(with) |-> <<Head(items)>> \o with[i]]

RECURSIVE combinations(_, _)
combinations(items, k) ==
    IF k = 0 THEN << <<>> >>
    ELSE IF Len(items) < k THEN <<>>
    ELSE LET rest == Tail(items)
             with == combinations(rest, k - 1)
         IN  [i \in 1..Len(with) |-> <<Head(items)>> \o with[i]]
             \o combinations(rest, k)

\* The values of y, its largest and its smallest.
values(y) == {y[i] : i \in 1..Len(y)}

largest(y) == CHOOSE v \in values(y) : \A w \in values(y) : w <= v

smallest(y) == CHOOSE v \in values(y) : \A w \in values(y) : v <= w

\* argmax taken for argmin.
argmin(y) ==
    LET m == smallest(y)
    IN  CHOOSE i \in 1..Len(y) :
            y[i] = m /\ \A j \in 1..(i - 1) : y[j] # m

\* argmax keeping the last index that holds the maximum.
argmax_last(y) ==
    LET m == largest(y)
    IN  CHOOSE i \in 1..Len(y) :
            y[i] = m /\ \A j \in (i + 1)..Len(y) : y[j] # m

\* numpy argmax: the first index holding the maximum.
argmax(y) ==
    LET m == largest(y)
    IN  CHOOSE i \in 1..Len(y) :
            y[i] = m /\ \A j \in 1..(i - 1) : y[j] # m

\* ------------------------------------------------------------------------
\* model_select_attackers(model, heroes, defenders)

model_select_attackers(model, heroes, defenders) ==
    LET attackers_list == combinations(heroes, TEAM_SIZE)
        team == make_team_features(defenders)
    IN  IF team.status = "raised" THEN team
        ELSE IF Len(attackers_list) = 0
        \* numpy.array([]) - vector: shapes (0,) and (FeatureDim,) do not
        \* broadcast.
        THEN Raised("ValueError", 74, 0)
        \* y is the array of probabilities, one per row of x (the
        \* concatenation makes it a tuple, computed once).
        ELSE LET y == [i \in 1..Len(attackers_list) |->
                        predict_proba(model.estimator,
                            numpy_sub(reduce_add(attackers_list[i]), team.value))]
                      \o <<>>
                 index == argmax(y)
             IN  Returned(<<attackers_list[index], y[index]>>, 1)

\* ------------------------------------------------------------------------
\* select_enemy(model, enemies, heroes)

\* An arena enemy as select_enemy reads it: enemy.heroes, and a user id to
\* tell enemies apart.
ArenaEnemy(user_id, heroes) == [user_id |-> user_id, heroes |-> heroes]

\* The outcomes of model_select_attackers for each enemy, in list order
\* (a tuple, computed once).
enemy_selections(model, enemies, heroes) ==
    [i \in 1..Len(enemies) |->
        model_select_attackers(model, heroes, enemies[i].heroes)] \o <<>>

\* select_enemy with min() for max().
select_enemy_min(model, enemies, heroes) ==
    LET outs == enemy_selections(model, enemies, heroes)
        failed == {i \in 1..Len(enemies) : outs[i].status = "raised"}
    IN  IF failed # {}
        THEN LET f == CHOOSE i \in failed : \A j \in failed : i <= j
             IN  Raised(outs[f].exc, outs[f].line, (f - 1) + outs[f].calls)
        ELSE IF Len(enemies) = 0
        THEN Raised("ValueError", 46, 0)
        ELSE LET index == argmin([i \in 1..Len(enemies) |-> outs[i].value[2]])
             IN  Returned(<<enemies[index], outs[index].value[1],
                            outs[index].value[2]>>, Len(enemies))

\* select_enemy with max(..., default=...): no enemy is no error.
select_enemy_default(model, enemies, heroes) ==
    LET outs == enemy_selections(model, enemies, heroes)
        failed == {i \in 1..Len(enemies) : outs[i].status = "raised"}
    IN  IF failed # {}
        THEN LET f == CHOOSE i \in failed : \A j \in failed : i <= j
             IN  Raised(outs[f].exc, outs[f].line, (f - 1) + outs[f].calls)
        ELSE IF Len(enemies) = 0
        THEN Returned(<<ArenaEnemy(0, <<>>), <<>>, 0>>, 0)
        ELSE LET index == argmax([i \in 1..Len(enemies) |-> outs[i].value[2]])
             IN  Returned(<<enemies[index], outs[index].value[1],
                            outs[index].value[2]>>, Len(enemies))

select_enemy(model, enemies, heroes) ==
    LET outs == enemy_selections(model, enemies, heroes)
        failed == {i \in 1..Len(enemies) : outs[i].status = "raised"}
    IN  IF failed # {}
        \* The list comprehension stops at the first enemy that raises.
        THEN LET f == CHOOSE i \in failed : \A j \in failed : i <= j
             IN  Raised(outs[f].exc, outs[f].line, (f - 1) + outs[f].calls)
        ELSE IF Len(enemies) = 0
        \* max() of an empty list.
        THEN Raised("ValueError", 46, 0)
        ELSE LET index == argmax([i \in 1..Len(enemies) |-> outs[i].value[2]])
             IN  Returned(<<enemies[index], outs[index].value[1],
                            outs[index].value[2]>>, Len(enemies))

\* ------------------------------------------------------------------------
\* model_select_grand_attackers(model, heroes, defenders_teams)

\* itertools.permutations(range(3)), slots numbered from 1.
permutations3 ==
    << <<1, 2, 3>>, <<1, 3, 2>>, <<2, 1, 3>>,
       <<2, 3, 1>>, <<3, 1, 2>>, <<3, 2, 1>> >>

\* heroes_left without the filter on used_heroes.
heroes_left_unfiltered(heroes, used_heroes) == heroes

\* The heroes whose id is not in used_heroes, in pool order.
heroes_left(heroes, used_heroes) ==
    SelectSeq(heroes, LAMBDA hero : hero.id \notin used_heroes)

\* p1*p2*p3 + p1*p2*(1-p3) + p2*p3*(1-p1) + p1*p3*(1-p2), over ProbScale^3.
majority_probability(probabilities) ==
    LET p1 == probabilities[1]
        p2 == probabilities[2]
        p3 == probabilities[3]
    IN  p1 * p2 * p3 + p1 * p2 * (ProbScale - p3)
        + p2 * p3 * (ProbScale - p1) + p1 * p3 * (ProbScale - p2)

\* The locals of one ordering before its first slot.
pass_start ==
    [status |-> "running", used_heroes |-> {},
     attackers_teams |-> << <<>>, <<>>, <<>> >>,
     probabilities |-> <<0, 0, 0>>, calls |-> 0]

\* The body of `for i in order` for slot i.
pass_step(model, heroes, defenders_teams, st, i) ==
    IF st.status # "running" THEN st
    ELSE LET out == model_select_attackers(
                        model, heroes_left(heroes, st.used_heroes),
                        defenders_teams[i])
         IN  IF out.status = "raised"
             THEN [st EXCEPT !.status = "raised",
                             !.calls = st.calls + out.calls]
                  @@ [exc |-> out.exc, line |-> out.line]
             ELSE [st EXCEPT
                     !.attackers_teams[i] = out.value[1],
                     !.probabilities[i] = out.value[2],
                     !.used_heroes = st.used_heroes \cup
                         {out.value[1][a].id : a \in 1..Len(out.value[1])},
                     !.calls = st.calls + out.calls]

\* One ordering's greedy pass: its three slots in the given order.
grand_pass(model, heroes, defenders_teams, order) ==
    pass_step(model, heroes, defenders_teams,
        pass_step(model, heroes, defenders_teams,
            pass_step(model, heroes, defenders_teams, pass_start, order[1]),
            order[2]),
        order[3])

\* The passes of all orderings, in permutation order (a tuple, computed
\* once).
grand_passes(model, heroes, defenders_teams) ==
    [o \in 1..Len(permutations3) |->
        grand_pass(model, heroes, defenders_teams, permutations3[o])] \o <<>>

\* The best probability returned with the teams of the last ordering, as
\* when attackers_teams is one list shared by all orderings.
choose_best_selection_shared_teams(passes) ==
    LET index == argmax([o \in 1..Len(passes) |->
                            majority_probability(passes[o].probabilities)])
    IN  <<passes[Len(passes)].attackers_teams,
          majority_probability(passes[index].probabilities)>>

\* The selection of the last ordering returned, as when the loop variable
\* is returned instead of the maximum of selections.
choose_best_selection_last_pass(passes) ==
    <<passes[Len(passes)].attackers_teams,
      majority_probability(passes[Len(passes)].probabilities)>>

\* selections, then max(selections, key=itemgetter(1)).
choose_best_selection(passes) ==
    LET index == argmax([o \in 1..Len(passes) |->
                            majority_probability(passes[o].probabilities)])
    IN  <<passes[index].attackers_teams,
          majority_probability(passes[index].probabilities)>>

RECURSIVE sum_calls(_, _)
sum_calls(passes, upto) ==
    IF upto = 0 THEN 0 ELSE sum_calls(passes, upto - 1) + passes[upto].calls

model_select_grand_attackers(model, heroes, defenders_teams) ==
    LET passes == grand_passes(model, heroes, defenders_teams)
        failed == {o \in 1..Len(passes) : passes[o].status = "raised"}
    IN  IF failed # {}
        \* An exception in a pass leaves the function: later orderings are
        \* not tried.
        THEN LET f == CHOOSE o \in failed : \A j \in failed : o <= j
             IN  Raised(passes[f].exc, passes[f].line, sum_calls(passes, f))
        ELSE Returned(choose_best_selection(passes),
                      sum_calls(passes, Len(passes)))

\* ------------------------------------------------------------------------
\* choose_multiple(items, n, k): the tuples it yields, in the order it yields
\* them.

\* Line 165 without the filter on used_keys.
items_not_used_unfiltered(items, head) == items

\* Line 164-165: used_keys are the ids of the items of head's groups; the
\* generator passes on the items whose id is not among them.
items_not_used(items, head) ==
    LET used_keys == UNION {{head[g][a].id : a \in 1..Len(head[g])} :
                                g \in 1..Len(head)}
    IN  SelectSeq(items, LAMBDA item : item.id \notin used_keys)

\* Lines 165-166 for one head: (*head, [*tail]) for every tail, in the
\* order of combinations.
yields_of_head(items, head, k) ==
    LET tails == combinations(items_not_used(items, head), k)
    IN  [t \in 1..Len(tails) |-> Append(head, tails[t])] \o <<>>

RECURSIVE yields_of_heads(_, _, _, _)
\* Lines 163-166 for the first `upto` heads.
yields_of_heads(items, heads, k, upto) ==
    IF upto = 0 THEN <<>>
    ELSE yields_of_heads(items, heads, k, upto - 1)
         \o yields_of_head(items, heads[upto], k)

RECURSIVE choose_multiple(_, _, _)
choose_multiple(items, n, k) ==
    IF n = 0
    THEN << <<>> >>
    ELSE LET heads == choose_multiple(items, n - 1, k)
         IN  yields_of_heads(items, heads, k, Len(heads))

\* ------------------------------------------------------------------------
\* secretary_max(items, n, key)

\* An Optional value: <<>> is None (or a name not bound yet), <<v>> is v.
None == <<>>

Some(v) == <<v>>

\* int(n / math.e) for 0 <= n <= 2000: math.e is 2.718281828..., and no
\* n/e in that range is within 10^-6 of an integer.
int_div_e(n) == (n * 1000000) \div 2718282

\* key(item): the default key (key=None) is the item itself.
apply_key(key, item) == IF key = "None" THEN item ELSE 0 - item

\* The locals of secretary_max after lines 143-146. pulled is the position
\* of the iterator in items, key_evals[i] the number of times key was
\* applied to items[i], skipped the number of range(r - 1) steps done, best
\* the running result of max().
secretary_locals(items, n) ==
    [r |-> int_div_e(n) + 1, pulled |-> 0,
     key_evals |-> [i \in 1..Len(items) |-> 0],
     skipped |-> 0, best |-> None, max_key |-> None,
     item |-> None, item_key |-> None]

\* next_iterator with the key applied a second time to the pulled item, as
\* when the comparison recomputes key(item) instead of using the pair.
next_iterator_rescoring(key, items, l) ==
    [l EXCEPT !.pulled = l.pulled + 1,
              !.key_evals[l.pulled + 1] = l.key_evals[l.pulled + 1] + 2]

\* next(iterator): the generator pulls one item and applies key to it once.
next_iterator(key, items, l) ==
    [l EXCEPT !.pulled = l.pulled + 1,
              !.key_evals[l.pulled + 1] = l.key_evals[l.pulled + 1] + 1]

\* ------------------------------------------------------------------------
\* Bot: the action queue.

MinutesPerDay == 24 * 60

\* time(hour=h, minute=m) as minutes of the day.
time(hour, minute) == hour * 60 + minute

\* A queue item (when, action_counter, action, args); args is always ().
QueueItem(when, counter, action) ==
    [when |-> when, counter |-> counter, action |-> action]

\* Tuple comparison of queue items: action_counter is unique, so the
\* action itself is never compared.
item_before(a, b) ==
    a.when < b.when \/ (a.when = b.when /\ a.counter < b.counter)

\* heapq.heappop on a non-empty queue: the smallest item.
heappop(q) == CHOOSE item \in q : \A other \in q \ {item} : item_before(item, other)

RECURSIVE advance_to(_, _, _)
\* Lines 87-88: while dt < now: dt += interval.
advance_to(dt, now_, interval) ==
    IF dt < now_ THEN advance_to(dt + interval, now_, interval) ELSE dt

\* alarm_time: today's time_ in the time zone (an offset from UTC in
\* minutes), moved on by interval until it is not before now.
alarm_time(time_, time_zone, interval, now_) ==
    LET local_now == now_ + time_zone
        dt == local_now - (local_now % MinutesPerDay) + time_
    IN  advance_to(dt, local_now, interval) - time_zone

\* The bot's queue and action_counter as one value.
BotQueue(q, counter) == [queue |-> q, action_counter |-> counter]

\* schedule(when, action).
schedule(bot, when, action) ==
    BotQueue(bot.queue \cup {QueueItem(when, bot.action_counter + 1, action)},
             bot.action_counter + 1)

RECURSIVE schedule_each(_, _, _)
\* schedule() called for the first `upto` of a sequence of <<when, action>>.
schedule_each(bot, calls, upto) ==
    IF upto = 0 THEN bot
    ELSE schedule(schedule_each(bot, calls, upto - 1),
                  calls[upto][1], calls[upto][2])

\* Lines 48-58: the initial actions, in the order they are scheduled.
initial_actions(now_, user_time_zone) ==
    << <<alarm_time(time(9, 30), user_time_zone, DEFAULT_INTERVAL, now_),
         "farm_quests">>,
       <<alarm_time(time(14, 30), user_time_zone, DEFAULT_INTERVAL, now_),
         "farm_quests">>,
       <<alarm_time(time(21, 30), user_time_zone, DEFAULT_INTERVAL, now_),
         "farm_quests">>,
       <<alarm_time(time(3, 59), 0, DEFAULT_INTERVAL, now_),
         "farm_expeditions">>,
       <<alarm_time(time(19, 39), 0, ARENA_INTERVAL, now_), "attack_arena">>,
       <<alarm_time(time(8, 0), 0, DEFAULT_INTERVAL, now_),
         "farm_daily_bonus">>,
       <<alarm_time(time(8, 15), 0, DEFAULT_INTERVAL, now_), "buy_chest">>,
       <<alarm_time(time(8, 30), 0, FARM_MAIL_INTERVAL, now_), "farm_mail">>,
       <<alarm_time(time(8, 45), 0, DEFAULT_INTERVAL, now_),
         "send_daily_gift">> >>

\* How the body of an action's try block ends: it returns, or an API call
\* (or the code around it) raises.
Outcomes ==
    {"returned", "InvalidSessionError", "AlreadyError",
     "InvalidResponseError", "Exception"}

\* ------------------------------------------------------------------------
\* Inputs.

\* Rosters: a hero's id is its position; the features come from a profile.
\*   decades: power 10, 20, 30, ... and one star;
\*   mixed:   powers and stars that repeat, so that teams tie.
Profiles == {"decades", "mixed"}

roster_hero(profile, i) ==
    IF profile = "decades" THEN Hero(i, 10 * i, 1)
    ELSE Hero(i, (i * 7) % 5, i % 3)

Roster(profile, size) == [i \in 1..size |-> roster_hero(profile, i)]

\* Pools given to model_select_attackers and select_enemy.
Pools ==
    {Roster(p, size) : p \in Profiles, size \in 0..(TEAM_SIZE + MaxExtraHeroes)}

\* Pools given to model_select_grand_attackers: the small ones, and those
\* around N_GRAND_HEROES.
GrandPools ==
    Pools \cup
    {Roster("mixed", size) :
        size \in {N_GRAND_HEROES - TEAM_SIZE} \cup
                 (N_GRAND_HEROES - 1)..(N_GRAND_HEROES + MaxGrandExtra)}

\* Enemy teams; enemy heroes have ids of their own.
enemy_team(powers) ==
    [i \in 1..Len(powers) |-> Hero(100 + i, powers[i], 1)]

DefendersTeams ==
    { enemy_team(<<24, 24, 24, 24, 24>>),
      enemy_team(<<1, 2, 3, 4, 0>>),
      enemy_team(<<60, 50, 70, 80, 90>>),
      enemy_team(<<>>) }

RECURSIVE SeqsUpTo(_, _)
\* The sequences over S of length 0..len.
SeqsUpTo(S, len) ==
    IF len = 0 THEN {<<>>}
    ELSE LET shorter == SeqsUpTo(S, len - 1)
         IN  shorter \cup {Append(q, x) : q \in shorter, x \in S}

\* Enemy lists: the enemy at position i has user id i.
EnemyLists ==
    {[i \in 1..Len(q) |-> ArenaEnemy(i, q[i])] :
        q \in SeqsUpTo(DefendersTeams, MaxEnemies)}

\* Grand arena enemies: three teams of TEAM_SIZE heroes.
GrandDefenders ==
    { <<enemy_team(<<3, 3, 3, 2, 2>>), enemy_team(<<3, 3, 3, 3, 3>>),
        enemy_team(<<2, 2, 2, 2, 2>>)>>,
      <<enemy_team(<<4, 3, 3, 3, 2>>), enemy_team(<<3, 3, 2, 2, 2>>),
        enemy_team(<<1, 1, 1, 2, 1>>)>> }

\* Pools given to choose_multiple: items with distinct ids.
ChoosePools == {Roster("decades", size) : size \in 0..MaxChoosePool}

\* The times at which Bot.run starts, and the user's time zones (offsets
\* from UTC in minutes).
StartTimes == {StartDay * MinutesPerDay + m : m \in {0, 480, 500, 1200}}

TimeZones == {0, 180}

Models == {[estimator |-> e] : e \in Estimators}

\* The sequence 1, 2, ..., 10 and its expected count.
CountToTen == [i \in 1..10 |-> i]

ItemSeqs == SeqsUpTo(1..MaxItem, MaxLen) \cup {CountToTen}

ExpectedCounts == (0..MaxN) \cup {Len(CountToTen)}

Keys == {"None", "negate"}

\* ------------------------------------------------------------------------
\* State.

VARIABLES
    pc,        \* "idle", "called", or the position inside secretary_max
    call,      \* the operation called and its arguments
    locals,    \* the locals of secretary_max
    result,    \* the outcome of the call
    run_pc,    \* the position inside Bot.run
    queue,     \* Bot.queue, as the set of its items
    action_counter,    \* Bot.action_counter
    now,       \* the clock
    popped,    \* the locals when, _, action of Bot.run
    outcome    \* how the action called at line 69 ended

arena_vars == <<pc, call, locals, result>>

bot_vars == <<run_pc, queue, action_counter, now, popped, outcome>>

vars == <<pc, call, locals, result,
          run_pc, queue, action_counter, now, popped, outcome>>

NoCall == [op |-> "none"]

NoLocals == [r |-> 0]

NoResult == [status |-> "none"]

\* No item popped yet.
NoItem == [action |-> "none"]

\* Nothing is called, and the bot is constructed but not running.
Init ==
    /\ pc = "idle"
    /\ call = NoCall
    /\ locals = NoLocals
    /\ result = NoResult
    /\ run_pc = "start"
    /\ queue = {}
    /\ action_counter = 0
    /\ now = 0
    /\ popped = NoItem
    /\ outcome = "none"

\* ------------------------------------------------------------------------
\* The selectors: each call runs to its outcome in one step.

ModelSelectAttackers ==
    /\ pc = "idle"
    /\ \E model \in Models, heroes \in Pools, defenders \in DefendersTeams :
        /\ call' = [op |-> "model_select_attackers", model |-> model,
                    heroes |-> heroes, defenders |-> defenders]
        /\ result' = model_select_attackers(model, heroes, defenders)
    /\ pc' = "called"
    /\ UNCHANGED locals
    /\ UNCHANGED bot_vars

SelectEnemy ==
    /\ pc = "idle"
    /\ \E model \in Models, enemies \in EnemyLists, heroes \in Pools :
        /\ call' = [op |-> "select_enemy", model |-> model,
                    enemies |-> enemies, heroes |-> heroes]
        /\ result' = select_enemy(model, enemies, heroes)
    /\ pc' = "called"
    /\ UNCHANGED locals
    /\ UNCHANGED bot_vars

ModelSelectGrandAttackers ==
    /\ pc = "idle"
    /\ \E model \in Models, heroes \in GrandPools,
          defenders_teams \in GrandDefenders :
        /\ call' = [op |-> "model_select_grand_attackers", model |-> model,
                    heroes |-> heroes, defenders_teams |-> defenders_teams]
        /\ result' = model_select_grand_attackers(model, heroes, defenders_teams)
    /\ pc' = "called"
    /\ UNCHANGED locals
    /\ UNCHANGED bot_vars

\* choose_multiple run to exhaustion by its caller.
ChooseMultiple ==
    /\ pc = "idle"
    /\ \E items \in ChoosePools, n \in 0..MaxGroups, k \in 0..MaxGroupSize :
        /\ call' = [op |-> "choose_multiple", items |-> items,
                    n |-> n, k |-> k]
        /\ result' = Returned(choose_multiple(items, n, k), 0)
    /\ pc' = "called"
    /\ UNCHANGED locals
    /\ UNCHANGED bot_vars

\* ------------------------------------------------------------------------
\* secretary_max, one pull of the iterator per step.

\* Lines 143-146. generator_stop tells whether the interpreter turns a
\* StopIteration raised inside a generator into RuntimeError (Python 3.7
\* and later) or lets it end the generator (Python 3.6).
SecretaryMax ==
    /\ pc = "idle"
    /\ \E items \in ItemSeqs, n \in ExpectedCounts, key \in Keys,
          generator_stop \in BOOLEAN :
        /\ call' = [op |-> "secretary_max", items |-> items, n |-> n,
                    key |-> key, generator_stop |-> generator_stop]
        /\ locals' = secretary_locals(items, n)
    /\ pc' = "skip"
    /\ UNCHANGED result
    /\ UNCHANGED bot_vars

\* Line 148: one next(iterator) of the r - 1 that max() consumes.
SkipNext ==
    /\ pc = "skip"
    /\ locals.skipped < locals.r - 1
    /\ locals.pulled < Len(call.items)
    /\ LET item_key == apply_key(call.key, call.items[locals.pulled + 1])
           pulled == next_iterator(call.key, call.items, locals)
       IN  locals' = [pulled EXCEPT
                !.skipped = locals.skipped + 1,
                !.best = IF locals.best = None \/ item_key > locals.best[1]
                         THEN Some(item_key) ELSE locals.best]
    /\ UNCHANGED <<pc, call, result>>
    /\ UNCHANGED bot_vars

\* Line 148: next(iterator) raises StopIteration inside the generator
\* expression.
SkipExhausted ==
    /\ pc = "skip"
    /\ locals.skipped < locals.r - 1
    /\ locals.pulled = Len(call.items)
    /\ IF call.generator_stop
       THEN /\ result' = Raised("RuntimeError", 148, 0)
            /\ pc' = "called"
            /\ UNCHANGED locals
       ELSE /\ locals' = [locals EXCEPT !.max_key = locals.best]
            /\ pc' = "scan"
            /\ UNCHANGED result
    /\ UNCHANGED call
    /\ UNCHANGED bot_vars

\* Line 148: range(r - 1) is used up and max() returns, (None, None) when
\* it saw nothing.
SkipDone ==
    /\ pc = "skip"
    /\ locals.skipped >= locals.r - 1
    /\ locals' = [locals EXCEPT !.max_key = locals.best]
    /\ pc' = "scan"
    /\ UNCHANGED <<call, result>>
    /\ UNCHANGED bot_vars

\* ScanNext breaking on item_key >= max_key.
ScanNextOrEqual ==
    /\ pc = "scan"
    /\ locals.pulled < Len(call.items)
    /\ LET item == call.items[locals.pulled + 1]
           item_key == apply_key(call.key, item)
           pulled == next_iterator(call.key, call.items, locals)
       IN  /\ locals' = [pulled EXCEPT !.item = Some(item),
                                       !.item_key = Some(item_key)]
           /\ pc' = IF locals.max_key = None \/ item_key >= locals.max_key[1]
                    THEN "return" ELSE "scan"
    /\ UNCHANGED <<call, result>>
    /\ UNCHANGED bot_vars

\* Lines 150-152: the for loop takes the next item, and breaks on it when
\* it beats max_key.
ScanNext ==
    /\ pc = "scan"
    /\ locals.pulled < Len(call.items)
    /\ LET item == call.items[locals.pulled + 1]
           item_key == apply_key(call.key, item)
           pulled == next_iterator(call.key, call.items, locals)
       IN  /\ locals' = [pulled EXCEPT !.item = Some(item),
                                       !.item_key = Some(item_key)]
           /\ pc' = IF locals.max_key = None \/ item_key > locals.max_key[1]
                    THEN "return" ELSE "scan"
    /\ UNCHANGED <<call, result>>
    /\ UNCHANGED bot_vars

\* Line 150: the iterator is used up and the for loop ends.
ScanExhausted ==
    /\ pc = "scan"
    /\ locals.pulled = Len(call.items)
    /\ pc' = "return"
    /\ UNCHANGED <<call, locals, result>>
    /\ UNCHANGED bot_vars

\* SecretaryReturn with item and item_key bound to None before the loop.
SecretaryReturnNone ==
    /\ pc = "return"
    /\ result' = IF locals.item = None
                 THEN Returned(<<None, None>>, 0)
                 ELSE Returned(<<locals.item[1], locals.item_key[1]>>, 0)
    /\ pc' = "called"
    /\ UNCHANGED <<call, locals>>
    /\ UNCHANGED bot_vars

\* Line 154: return item, item_key; both are unbound when the loop body
\* never ran.
SecretaryReturn ==
    /\ pc = "return"
    /\ result' = IF locals.item = None
                 THEN Raised("UnboundLocalError", 154, 0)
                 ELSE Returned(<<locals.item[1], locals.item_key[1]>>, 0)
    /\ pc' = "called"
    /\ UNCHANGED <<call, locals>>
    /\ UNCHANGED bot_vars

\* The caller takes the outcome; nothing is kept between calls.
Return ==
    /\ pc = "called"
    /\ pc' = "idle"
    /\ call' = NoCall
    /\ locals' = NoLocals
    /\ result' = NoResult
    /\ UNCHANGED bot_vars

Next ==
    \/ ModelSelectAttackers
    \/ SelectEnemy
    \/ ModelSelectGrandAttackers
    \/ ChooseMultiple
    \/ SecretaryMax
    \/ SkipNext
    \/ SkipExhausted
    \/ SkipDone
    \/ ScanNext
    \/ ScanExhausted
    \/ SecretaryReturn
    \/ Return

Spec == Init /\ [][Next]_vars

\* ------------------------------------------------------------------------
\* Bot.run and the recurring actions.

\* Lines 45-58: the initial actions are scheduled.
Run ==
    /\ run_pc = "start"
    /\ \E start \in StartTimes, time_zone \in TimeZones :
        LET calls == initial_actions(start, time_zone)
            bot == schedule_each(BotQueue(queue, action_counter), calls,
                                 Len(calls))
        IN  /\ now' = start
            /\ queue' = bot.queue
            /\ action_counter' = bot.action_counter
    /\ run_pc' = "while"
    /\ UNCHANGED <<popped, outcome>>
    /\ UNCHANGED arena_vars

\* Lines 61-67 and 81: the loop test, then the pop and the sleep until the
\* item's time.
WhileQueue ==
    /\ run_pc = "while"
    /\ action_counter < MaxActionCounter
    /\ IF queue = {}
       THEN /\ run_pc' = "queue is empty"
            /\ UNCHANGED <<queue, now, popped>>
       ELSE LET item == heappop(queue)
            IN  /\ popped' = item
                /\ queue' = queue \ {item}
                /\ now' = IF item.when > now THEN item.when ELSE now
                /\ run_pc' = "action"
    /\ UNCHANGED <<action_counter, outcome>>
    /\ UNCHANGED arena_vars

\* The try ... finally of an action called at line 69 with when =
\* popped.when: the try block ends in one of the outcomes, and the finally
\* clause schedules the action again at when + interval.
try_finally(interval) ==
    /\ outcome' \in Outcomes
    /\ LET bot == schedule(BotQueue(queue, action_counter),
                           popped.when + interval, popped.action)
       IN  /\ queue' = bot.queue
           /\ action_counter' = bot.action_counter
    /\ run_pc' = "except"
    /\ UNCHANGED <<now, popped>>

farm_daily_bonus ==
    /\ run_pc = "action"
    /\ popped.action = "farm_daily_bonus"
    /\ try_finally(DEFAULT_INTERVAL)
    /\ UNCHANGED arena_vars

farm_expeditions ==
    /\ run_pc = "action"
    /\ popped.action = "farm_expeditions"
    /\ try_finally(DEFAULT_INTERVAL)
    /\ UNCHANGED arena_vars

farm_quests ==
    /\ run_pc = "action"
    /\ popped.action = "farm_quests"
    /\ try_finally(DEFAULT_INTERVAL)
    /\ UNCHANGED arena_vars

\* Line 133 returns from inside the try block when there are no letters.
farm_mail ==
    /\ run_pc = "action"
    /\ popped.action = "farm_mail"
    /\ try_finally(FARM_MAIL_INTERVAL)
    /\ UNCHANGED arena_vars

buy_chest ==
    /\ run_pc = "action"
    /\ popped.action = "buy_chest"
    /\ try_finally(DEFAULT_INTERVAL)
    /\ UNCHANGED arena_vars

send_daily_gift ==
    /\ run_pc = "action"
    /\ popped.action = "send_daily_gift"
    /\ try_finally(DEFAULT_INTERVAL)
    /\ UNCHANGED arena_vars

attack_arena ==
    /\ run_pc = "action"
    /\ popped.action = "attack_arena"
    /\ try_finally(ARENA_INTERVAL)
    /\ UNCHANGED arena_vars

\* Line 69 returned.
ActionReturned ==
    /\ run_pc = "except"
    /\ outcome = "returned"
    /\ run_pc' = "while"
    /\ outcome' = "none"
    /\ UNCHANGED <<queue, action_counter, now, popped>>
    /\ UNCHANGED arena_vars

\* Lines 70-73: authenticate() is called outside any try block, so its
\* exception ends run(); else the action is scheduled again at
\* AS_SOON_AS_POSSIBLE.
ExceptInvalidSessionError ==
    /\ run_pc = "except"
    /\ outcome = "InvalidSessionError"
    /\ \E authenticated \in BOOLEAN :
        IF authenticated
        THEN LET bot == schedule(BotQueue(queue, action_counter),
                                 AS_SOON_AS_POSSIBLE, popped.action)
             IN  /\ queue' = bot.queue
                 /\ action_counter' = bot.action_counter
                 /\ run_pc' = "while"
        ELSE /\ run_pc' = "raised"
             /\ UNCHANGED <<queue, action_counter>>
    /\ outcome' = "none"
    /\ UNCHANGED <<now, popped>>
    /\ UNCHANGED arena_vars

\* Lines 74-79: the other exceptions are logged and the loop goes on.
logged ==
    /\ run_pc' = "while"
    /\ outcome' = "none"
    /\ UNCHANGED <<queue, action_counter, now, popped>>

ExceptAlreadyError ==
    /\ run_pc = "except"
    /\ outcome = "AlreadyError"
    /\ logged
    /\ UNCHANGED arena_vars

ExceptInvalidResponseError ==
    /\ run_pc = "except"
    /\ outcome = "InvalidResponseError"
    /\ logged
    /\ UNCHANGED arena_vars

ExceptException ==
    /\ run_pc = "except"
    /\ outcome = "Exception"
    /\ logged
    /\ UNCHANGED arena_vars

NextBot ==
    \/ Run
    \/ WhileQueue
    \/ farm_daily_bonus
    \/ farm_expeditions
    \/ farm_quests
    \/ farm_mail
    \/ buy_chest
    \/ send_daily_gift
    \/ attack_arena
    \/ ActionReturned
    \/ ExceptInvalidSessionError
    \/ ExceptAlreadyError
    \/ ExceptInvalidResponseError
    \/ ExceptException

SpecBot == Init /\ [][NextBot]_vars

\* ========================================================================
\* Properties.

Range(seq) == {seq[i] : i \in 1..Len(seq)}

Ids(team) == {team[a].id : a \in 1..Len(team)}

Powers(team) == {team[a].features[1] : a \in 1..Len(team)}

RECURSIVE FeatureTotal(_, _)
\* The sum of feature c over a set of heroes.
FeatureTotal(S, c) ==
    IF S = {} THEN 0
    ELSE LET h == CHOOSE x \in S : TRUE
         IN  h.features[c] + FeatureTotal(S \ {h}, c)

\* The estimator's probability for a set of attackers against a set of
\* defenders: its value on the difference of the two teams' feature sums.
TeamScore(model, attackers, defenders) ==
    predict_proba(model.estimator,
        <<FeatureTotal(attackers, 1) - FeatureTotal(defenders, 1),
          FeatureTotal(attackers, 2) - FeatureTotal(defenders, 2)>>)

TeamsOf(pool) == {S \in SUBSET pool : Cardinality(S) = TEAM_SIZE}

Called(op) == pc = "called" /\ call.op = op

\* An outcome raised by the scoring step of model_select_attackers (building
\* the differential rows, predict_proba, argmax) or below it.
RaisedByScoringStep(out) ==
    out.status = "raised" /\ out.line \in {74, 75, 76, 132}

\* ------------------------------------------------------------------------
\* C1: for a pool of at least TEAM_SIZE units and a (non-empty) opposing
\* team, model_select_attackers returns TEAM_SIZE distinct units of the
\* pool and the estimator's probability for them, which no other
\* TEAM_SIZE-subset of the pool exceeds; a pool of exactly TEAM_SIZE units
\* is returned whole.
C1_SelectsBestTeam ==
    (/\ Called("model_select_attackers")
     /\ Len(call.heroes) >= TEAM_SIZE
     /\ call.defenders # <<>>)
    => /\ result.status = "returned"
       /\ LET team == result.value[1]
              probability == result.value[2]
              pool == Range(call.heroes)
              defenders == Range(call.defenders)
          IN  /\ Len(team) = TEAM_SIZE
              /\ Range(team) \subseteq pool
              /\ Cardinality(Ids(team)) = TEAM_SIZE
              /\ probability = TeamScore(call.model, Range(team), defenders)
              /\ \A S \in TeamsOf(pool) :
                    TeamScore(call.model, S, defenders) <= probability
              /\ Len(call.heroes) = TEAM_SIZE => team = call.heroes

\* C1's case: a larger pool, a team that is not the first combination, and
\* another team that scores strictly less.
C1_Witness ==
    /\ Called("model_select_attackers")
    /\ Len(call.heroes) > TEAM_SIZE
    /\ result.status = "returned"
    /\ result.value[1] # SubSeq(call.heroes, 1, TEAM_SIZE)
    /\ \E S \in TeamsOf(Range(call.heroes)) :
          TeamScore(call.model, S, Range(call.defenders)) < result.value[2]

\* ------------------------------------------------------------------------
\* The end-to-end scenario: six units of power 10..60 in that order, an
\* opposing team of power sum 120, the stub estimator.
ScenarioCall ==
    /\ Called("model_select_attackers")
    /\ call.heroes = Roster("decades", 6)
    /\ call.defenders = enemy_team(<<24, 24, 24, 24, 24>>)
    /\ call.model.estimator.kind = "stub"

\* C2 as stated: the scenario returns the five units of highest power,
\* {20,30,40,50,60}, with probability 1.0.
C2_ReturnsHighestPower ==
    ScenarioCall
    => /\ result.status = "returned"
       /\ Powers(result.value[1]) = {20, 30, 40, 50, 60}
       /\ result.value[2] = ProbScale

\* C2 amended: every team of the scenario scores 1.0, and the scenario
\* returns the first combination in pool order, {10,20,30,40,50}, with
\* probability 1.0.
C2_ReturnsFirstCombination ==
    ScenarioCall
    => /\ result.status = "returned"
       /\ result.value[1] = SubSeq(call.heroes, 1, TEAM_SIZE)
       /\ Powers(result.value[1]) = {10, 20, 30, 40, 50}
       /\ result.value[2] = ProbScale
       /\ \A S \in TeamsOf(Range(call.heroes)) :
             TeamScore(call.model, S, Range(call.defenders)) = ProbScale

C2_Witness == ScenarioCall /\ result.status = "returned"

\* ------------------------------------------------------------------------
\* C3: for a pool of fewer than TEAM_SIZE units model_select_attackers
\* fails, and the failure is one about the number of units, not a fault
\* raised by the scoring step.
C3_FailsBeforeScoring ==
    (Called("model_select_attackers") /\ Len(call.heroes) < TEAM_SIZE)
    => /\ result.status = "raised"
       /\ ~RaisedByScoringStep(result)

\* ------------------------------------------------------------------------
\* C4: for a non-empty list of enemies (each with a non-empty team) and a
\* pool of at least TEAM_SIZE units, select_enemy returns an enemy of the
\* list with the team and probability model_select_attackers gives against
\* that enemy, and no enemy of the list gives a higher probability.
C4_SelectsBestEnemy ==
    (/\ Called("select_enemy")
     /\ call.enemies # <<>>
     /\ \A i \in 1..Len(call.enemies) : call.enemies[i].heroes # <<>>
     /\ Len(call.heroes) >= TEAM_SIZE)
    => /\ result.status = "returned"
       /\ LET enemy == result.value[1]
              best == model_select_attackers(call.model, call.heroes, enemy.heroes)
          IN  /\ enemy \in Range(call.enemies)
              /\ best.status = "returned"
              /\ result.value[2] = best.value[1]
              /\ result.value[3] = best.value[2]
              /\ \A e \in Range(call.enemies) :
                    model_select_attackers(call.model, call.heroes,
                                           e.heroes).value[2] <= result.value[3]

\* C4's case: two enemies against which the best probabilities differ, the
\* second one chosen.
C4_Witness ==
    /\ Called("select_enemy")
    /\ Len(call.enemies) >= 2
    /\ result.status = "returned"
    /\ result.value[1] = call.enemies[2]
    /\ model_select_attackers(call.model, call.heroes,
                              call.enemies[1].heroes).value[2] < result.value[3]

\* ------------------------------------------------------------------------
\* C5: with an empty list of enemies select_enemy fails (ValueError of
\* max() on the empty list) and returns no selection, and the estimator
\* has not been called.
C5_NoOpponentsFails ==
    (Called("select_enemy") /\ call.enemies = <<>>)
    => /\ result.status = "raised"
       /\ result.exc = "ValueError"
       /\ result.line = 46
       /\ result.calls = 0

\* C5's case: no enemy, though the pool could field a team.
C5_Witness ==
    /\ Called("select_enemy")
    /\ call.enemies = <<>>
    /\ Len(call.heroes) >= TEAM_SIZE
    /\ result.status = "raised"

\* ------------------------------------------------------------------------
\* C6: for a pool of at least 15 units with distinct ids
\* model_select_grand_attackers returns three teams of TEAM_SIZE units of
\* the pool each, and no unit id is in two teams or twice in one.
C6_DisjointTeams ==
    (/\ Called("model_select_grand_attackers")
     /\ Len(call.heroes) >= N_GRAND_HEROES)
    => /\ result.status = "returned"
       /\ LET teams == result.value[1]
          IN  /\ Len(teams) = N_GRAND_TEAMS
              /\ \A i \in 1..N_GRAND_TEAMS :
                    /\ Len(teams[i]) = TEAM_SIZE
                    /\ Range(teams[i]) \subseteq Range(call.heroes)
              /\ Cardinality(UNION {Ids(teams[i]) : i \in 1..N_GRAND_TEAMS})
                    = N_GRAND_HEROES

\* C6's case: three teams out of a pool with a unit to spare.
C6_Witness ==
    /\ Called("model_select_grand_attackers")
    /\ Len(call.heroes) > N_GRAND_HEROES
    /\ result.status = "returned"
    /\ Len(result.value[1]) = N_GRAND_TEAMS

\* The estimator's probability for the returned team of slot i against the
\* defenders of slot i.
SlotScore(i) ==
    TeamScore(call.model, Range(result.value[1][i]),
              Range(call.defenders_teams[i]))

\* ------------------------------------------------------------------------
\* C7: the probability model_select_grand_attackers returns is
\* p1*p2*p3 + p1*p2*(1-p3) + p2*p3*(1-p1) + p1*p3*(1-p2) for the
\* estimator's probabilities p1, p2, p3 of the three returned teams against
\* the defenders of slots 1, 2, 3, and lies in [0, 1].
C7_JointProbability ==
    (Called("model_select_grand_attackers") /\ result.status = "returned")
    => LET p1 == SlotScore(1)
           p2 == SlotScore(2)
           p3 == SlotScore(3)
           one == ProbScale
       IN  /\ result.value[2] =
                p1 * p2 * p3 + p1 * p2 * (one - p3)
                + p2 * p3 * (one - p1) + p1 * p3 * (one - p2)
           /\ result.value[2] >= 0
           /\ result.value[2] <= one * one * one

\* C7's case: three slots with different probabilities and a joint
\* probability strictly between 0 and 1.
C7_Witness ==
    /\ Called("model_select_grand_attackers")
    /\ result.status = "returned"
    /\ Cardinality({SlotScore(1), SlotScore(2), SlotScore(3)}) = 3
    /\ result.value[2] > 0
    /\ result.value[2] < ProbScale * ProbScale * ProbScale

\* ------------------------------------------------------------------------
\* C8: with fewer than 15 units model_select_grand_attackers fails, with a
\* failure about the number of units and not a fault raised by the scoring
\* step; an ordering whose pass succeeds has its result returned; and no
\* returned team has fewer than TEAM_SIZE units.
C8_GrandFailsBeforeScoring ==
    /\ (Called("model_select_grand_attackers")
        /\ Len(call.heroes) < N_GRAND_HEROES)
       => /\ result.status = "raised"
          /\ ~RaisedByScoringStep(result)
    /\ (Called("model_select_grand_attackers")
        /\ \E o \in 1..Len(permutations3) :
              grand_pass(call.model, call.heroes, call.defenders_teams,
                         permutations3[o]).status = "running")
       => result.status = "returned"
    /\ (Called("model_select_grand_attackers") /\ result.status = "returned")
       => \A i \in 1..N_GRAND_TEAMS : Len(result.value[1][i]) >= TEAM_SIZE

\* ------------------------------------------------------------------------
\* The item the stopping rule names: with r = floor(n / e) + 1, the first
\* item at position r or later whose key exceeds the keys of the r - 1
\* items before position r, else the last item.
StoppingRuleItem(items, n, key) ==
    LET r == int_div_e(n) + 1
        better == {i \in r..Len(items) :
                     \A j \in 1..(r - 1) :
                        apply_key(key, items[i]) > apply_key(key, items[j])}
    IN  IF r - 1 = 0 THEN items[1]
        ELSE IF better # {}
        THEN items[CHOOSE i \in better : \A j \in better : i <= j]
        ELSE items[Len(items)]

\* C9: on a sequence of at least r items secretary_max returns the item of
\* the stopping rule (with its key); on 1, 2, ..., 10 with n = 10 it
\* returns 4.
C9_StoppingRule ==
    (Called("secretary_max") /\ Len(call.items) >= int_div_e(call.n) + 1)
    => /\ result.status = "returned"
       /\ result.value[1] = StoppingRuleItem(call.items, call.n, call.key)
       /\ result.value[2] = apply_key(call.key, result.value[1])
       /\ (call.items = CountToTen /\ call.n = 10 /\ call.key = "None")
          => result.value[1] = 4

\* C9's case: a baseline of at least one item, an item after it passed
\* over, and a later one accepted before the end of the sequence.
C9_Witness ==
    /\ Called("secretary_max")
    /\ result.status = "returned"
    /\ locals.r >= 2
    /\ locals.pulled > locals.r
    /\ locals.pulled < Len(call.items)

\* ------------------------------------------------------------------------
\* C10: on an empty sequence secretary_max never returns a value and ends
\* raising (UnboundLocalError at the return, or RuntimeError from the
\* baseline generator), whatever the expected count.
C10_EmptySequenceFails ==
    (call.op = "secretary_max" /\ call.items = <<>>)
    => /\ result.status # "returned"
       /\ pc = "called"
          => /\ result.status = "raised"
             /\ result.exc \in {"UnboundLocalError", "RuntimeError"}

\* C10's case: an empty sequence with a baseline to skip (r - 1 >= 1), on
\* an interpreter that lets the baseline generator end quietly.
C10_Witness ==
    /\ Called("secretary_max")
    /\ call.items = <<>>
    /\ locals.r - 1 >= 1
    /\ ~call.generator_stop
    /\ result.status = "raised"

\* ------------------------------------------------------------------------
\* C11: during one secretary_max call the elements whose key was evaluated
\* are exactly the first `pulled` elements of the sequence, each evaluated
\* exactly once (the source is consumed front to back, never rewound, never
\* re-scored), and when the call returns an item the iterator stands on
\* that item: nothing behind it was pulled or scored.
C11_SinglePass ==
    call.op = "secretary_max"
    => /\ locals.pulled \in 0..Len(call.items)
       /\ \A i \in 1..Len(call.items) :
            locals.key_evals[i] = (IF i <= locals.pulled THEN 1 ELSE 0)
       /\ result.status = "returned"
          => /\ locals.pulled >= 1
             /\ result.value[1] = call.items[locals.pulled]
             /\ \A j \in (locals.pulled + 1)..Len(call.items) :
                  locals.key_evals[j] = 0

\* C11's case: a call that skipped a baseline, scanned past at least one
\* item and accepted one with a remainder left in the sequence.
C11_Witness ==
    /\ Called("secretary_max")
    /\ result.status = "returned"
    /\ locals.skipped >= 1
    /\ locals.pulled >= locals.skipped + 2
    /\ locals.pulled < Len(call.items)

\* ------------------------------------------------------------------------
\* C13: make_team_features of zero heroes raises (reduce() of an empty
\* sequence) instead of returning a vector, and model_select_attackers
\* given an empty defenders team ends raising that error, without a single
\* predict_proba call.
C13_EmptyTeamFails ==
    /\ make_team_features(<<>>).status = "raised"
    /\ (Called("model_select_attackers") /\ call.defenders = <<>>)
       => /\ result.status = "raised"
          /\ result.exc = make_team_features(<<>>).exc
          /\ result.line = make_team_features(<<>>).line
          /\ result.calls = 0

\* C13's case: an empty defenders team against a pool that has candidate
\* teams to score.
C13_Witness ==
    /\ Called("model_select_attackers")
    /\ call.defenders = <<>>
    /\ Len(call.heroes) > TEAM_SIZE
    /\ result.status = "raised"

\* ------------------------------------------------------------------------
\* The positions in seq of the members of S.
PositionsOf(seq, S) == {i \in 1..Len(seq) : seq[i] \in S}

\* P comes before Q in the lexicographic order of equal-sized position sets
\* (the order of itertools.combinations): the least position that only one
\* of them holds is P's.
LexBefore(P, Q) ==
    /\ P # Q
    /\ LET D == (P \ Q) \cup (Q \ P)
       IN  (CHOOSE d \in D : \A e \in D : d <= e) \in P

\* C15: among the TEAM_SIZE-subsets of the pool attaining the returned
\* (maximum) probability, model_select_attackers returns the one that is
\* first in the lexicographic order of positions in the pool as given, as a
\* sequence in pool order; the outcome is a function of the pool order, the
\* defenders and the model.
C15_FirstOfTies ==
    (/\ Called("model_select_attackers")
     /\ result.status = "returned")
    => LET team == result.value[1]
           chosen == PositionsOf(call.heroes, Range(team))
       IN  /\ Cardinality(chosen) = TEAM_SIZE
           /\ \A a \in 1..(Len(team) - 1) :
                \E i, j \in chosen :
                    i < j /\ call.heroes[i] = team[a]
                          /\ call.heroes[j] = team[a + 1]
           /\ \A S \in TeamsOf(Range(call.heroes)) :
                \/ S = Range(team)
                \/ TeamScore(call.model, S, Range(call.defenders))
                       < result.value[2]
                \/ LexBefore(chosen, PositionsOf(call.heroes, S))
           /\ result = model_select_attackers(call.model, call.heroes,
                                              call.defenders)

\* C15's case: another team ties with the returned one, and the returned
\* one is not simply the first combination (an earlier team scores less).
C15_Witness ==
    /\ Called("model_select_attackers")
    /\ result.status = "returned"
    /\ LET chosen == PositionsOf(call.heroes, Range(result.value[1]))
       IN  /\ \E S \in TeamsOf(Range(call.heroes)) :
                /\ S # Range(result.value[1])
                /\ TeamScore(call.model, S, Range(call.defenders))
                      = result.value[2]
           /\ \E S \in TeamsOf(Range(call.heroes)) :
                /\ LexBefore(PositionsOf(call.heroes, S), chosen)
                /\ TeamScore(call.model, S, Range(call.defenders))
                      < result.value[2]

\* ------------------------------------------------------------------------
\* The orderings of the three slots.
SlotOrderings ==
    {order \in [1..N_GRAND_TEAMS -> 1..N_GRAND_TEAMS] :
        \A i, j \in 1..N_GRAND_TEAMS : i # j => order[i] # order[j]}

\* The units of the call's pool not in the given teams, in pool order.
NotUsedIn(teams) ==
    SelectSeq(call.heroes,
              LAMBDA hero : \A t \in 1..Len(teams) : hero \notin Range(teams[t]))

\* The greedy pass of one ordering, started with the whole pool: the
\* model_select_attackers results for the slots order[1], order[2],
\* order[3], each over the units the earlier slots of this pass left, as
\* <<teams by slot, joint probability>>.
GreedyPass(order) ==
    LET first == model_select_attackers(call.model, call.heroes,
                     call.defenders_teams[order[1]]).value
        second == model_select_attackers(call.model,
                     NotUsedIn(<<first[1]>>),
                     call.defenders_teams[order[2]]).value
        third == model_select_attackers(call.model,
                     NotUsedIn(<<first[1], second[1]>>),
                     call.defenders_teams[order[3]]).value
        picked == (order[1] :> first) @@ (order[2] :> second)
                  @@ (order[3] :> third)
        p1 == picked[1][2]
        p2 == picked[2][2]
        p3 == picked[3][2]
    IN  << <<picked[1][1], picked[2][1], picked[3][1]>>,
           p1 * p2 * p3 + p1 * p2 * (ProbScale - p3)
           + p2 * p3 * (ProbScale - p1) + p1 * p3 * (ProbScale - p2) >>

\* C14: what model_select_grand_attackers returns is the outcome of the
\* greedy pass of one of the 6 slot orderings, each pass started with the
\* whole pool and picking slot by slot the model_select_attackers result
\* over the units not yet used in that pass, and its joint probability is
\* at least that of every one of the 6 passes.
C14_BestOfSixPasses ==
    (Called("model_select_grand_attackers") /\ result.status = "returned")
    => /\ Cardinality(SlotOrderings) = 6
       /\ \A order \in SlotOrderings :
            result.value[2] >= GreedyPass(order)[2]
       /\ \E order \in SlotOrderings :
            result.value = GreedyPass(order)

\* C14's case: the passes differ, and the pass of the first ordering
\* (slots 1, 2, 3) is not the best one.
C14_Witness ==
    /\ Called("model_select_grand_attackers")
    /\ result.status = "returned"
    /\ GreedyPass(<<1, 2, 3>>)[2] < result.value[2]
    /\ result.value[1] # GreedyPass(<<1, 2, 3>>)[1]

\* ------------------------------------------------------------------------
\* C16: for every non-empty sequence secretary_max returns an item of the
\* sequence, and a sequence shorter than r = int(n / e) + 1 (it ends in
\* the baseline, or exactly with it) gives its last item.
C16_NonEmptyReturnsItem ==
    (Called("secretary_max") /\ call.items # <<>>)
    => /\ result.status = "returned"
       /\ result.value[1] \in Range(call.items)
       /\ Len(call.items) < locals.r
          => result.value[1] = call.items[Len(call.items)]

\* ------------------------------------------------------------------------
\* The k-subsets of a set, and the ordered n-tuples of pairwise disjoint
\* k-subsets.
SubsetsOfSize(S, k) == {G \in SUBSET S : Cardinality(G) = k}

DisjointGroupTuples(S, n, k) ==
    {T \in [1..n -> SubsetsOfSize(S, k)] :
        \A g, h \in 1..n : g # h => T[g] \cap T[h] = {}}

RECURSIVE Binomial(_, _)
\* C(m, k), 0 when m < k.
Binomial(m, k) ==
    IF k = 0 THEN 1
    ELSE IF m < k THEN 0
    ELSE Binomial(m - 1, k - 1) + Binomial(m - 1, k)

RECURSIVE GroupTupleCount(_, _, _)
\* The product of C(m - i*k, k) for i = 0..n-1.
GroupTupleCount(m, n, k) ==
    IF n = 0 THEN 1
    ELSE GroupTupleCount(m, n - 1, k) * Binomial(m - (n - 1) * k, k)

\* A yielded tuple as a tuple of sets of items.
GroupSets(tuple) == [g \in 1..Len(tuple) |-> Range(tuple[g])]

\* C12: over a pool of distinct ids every tuple choose_multiple yields has
\* n groups of k distinct pool items each, no item in two groups; the
\* yielded tuples, read as tuples of sets, are exactly the ordered n-tuples
\* of pairwise disjoint k-subsets of the pool, each yielded once, so their
\* number is the product of C(|pool| - i*k, k) for i = 0..n-1 (756756 for
\* 15 items in 3 groups of 5); with n = 0 the single empty tuple is yielded.
C12_DisjointGroups ==
    Called("choose_multiple")
    => LET yielded == result.value
           pool == Range(call.items)
       IN  /\ result.status = "returned"
           /\ \A t \in 1..Len(yielded) :
                /\ Len(yielded[t]) = call.n
                /\ \A g \in 1..call.n :
                     /\ Len(yielded[t][g]) = call.k
                     /\ Cardinality(Range(yielded[t][g])) = call.k
                     /\ Range(yielded[t][g]) \subseteq pool
                /\ \A g, h \in 1..call.n :
                     g # h => Range(yielded[t][g]) \cap Range(yielded[t][h]) = {}
           /\ {GroupSets(yielded[t]) : t \in 1..Len(yielded)}
                = DisjointGroupTuples(pool, call.n, call.k)
           /\ \A t, u \in 1..Len(yielded) :
                t # u => GroupSets(yielded[t]) # GroupSets(yielded[u])
           /\ Len(yielded) = GroupTupleCount(Len(call.items), call.n, call.k)
           /\ GroupTupleCount(N_GRAND_HEROES, N_GRAND_TEAMS, TEAM_SIZE) = 756756
           /\ call.n = 0 => yielded = << <<>> >>

\* C12's case: several groups of several items out of a pool with items to
\* spare, so that later groups depend on what earlier ones took.
C12_Witness ==
    /\ Called("choose_multiple")
    /\ call.n >= 3
    /\ call.k >= 2
    /\ Len(call.items) >= call.n * call.k
    /\ Len(result.value) >= 90

\* ------------------------------------------------------------------------
\* Bot.run is inside its loop.
RunLooping == run_pc \in {"while", "action", "except"}

RecurringActions ==
    {"farm_daily_bonus", "farm_expeditions", "farm_mail", "buy_chest",
     "send_daily_gift", "attack_arena", "farm_quests"}

\* The items of the queue for one action.
Pending(action) == {item \in queue : item.action = action}

\* C17: while Bot.run is looping the queue holds at most one item for each
\* recurring action, and at most three for farm_quests, also after an
\* InvalidSessionError and its re-scheduling at AS_SOON_AS_POSSIBLE.
C17_OnePendingEntryPerAction ==
    RunLooping
    => \A action \in RecurringActions :
          Cardinality(Pending(action))
             <= (IF action = "farm_quests" THEN 3 ELSE 1)

\* ------------------------------------------------------------------------
\* The interval of each recurring action.
interval_of(action) ==
    IF action = "farm_mail" THEN FARM_MAIL_INTERVAL
    ELSE IF action = "attack_arena" THEN ARENA_INTERVAL
    ELSE DEFAULT_INTERVAL

\* Whatever its outcome, the action called for the popped item adds to the
\* queue exactly one item, for itself, at the item's time plus its
\* interval.
ActionSchedulesItself ==
    [][run_pc = "action"
       => /\ run_pc' = "except"
          /\ outcome' \in Outcomes
          /\ action_counter' = action_counter + 1
          /\ queue' = queue \cup
                {QueueItem(popped.when + interval_of(popped.action),
                           action_counter', popped.action)}
          /\ Cardinality(queue') = Cardinality(queue) + 1]_vars

\* The queue is not empty at any loop test, and the exit of line 81 is not
\* reached.
QueueNeverEmpty ==
    /\ run_pc = "while" => queue # {}
    /\ run_pc # "queue is empty"

\* Each popped item is not before the item popped before it, by (when,
\* action_counter).
PoppedInOrder ==
    [][(run_pc = "while" /\ run_pc' = "action" /\ popped # NoItem)
       => item_before(popped, popped')]_vars

\* C18: every action popped by Bot.run, whatever its outcome, has scheduled
\* exactly one new item for itself at its time plus its interval when
\* control is back in run; so the queue is never empty at the loop test,
\* the 'Action queue is empty' exit is never reached, and the items are
\* executed in non-decreasing (when, action_counter) order.
C18_RescheduledAndInOrder ==
    /\ ActionSchedulesItself
    /\ []QueueNeverEmpty
    /\ PoppedInOrder

====
